---- MODULE Spec2Model ----
(***************************************************************************)
(* The telemetry acquisition and synchronisation pipeline of the OBD-II    *)
(* interface: the _poll_worker thread, the two queues it shares with the   *)
(* GUI thread, the per-session data_history, the CSV log and the           *)
(* controller operations start_polling / stop_polling / _process_queues.   *)
(* Both source variants are modelled; `variant' selects which one runs.    *)
(***************************************************************************)
EXTENDS Integers, Sequences, FiniteSets, TLC

\* ------------------------------------------------------------------ bounds
\* _poll_worker threads ever spawned (one per accepted start_polling)
MaxThreads == 2
\* acquisition ticks begun, over all threads
MaxTicks == 2
\* last instant of the wall clock
MaxTime == 1
\* clock instants per calendar second (strftime truncates to seconds)
TicksPerSecond == 2
\* entries the log queue may hold
MaxLog == 2
\* last calendar second the clock reaches when it moves by whole seconds
MaxSeconds == 1
\* widest graph window, in clock instants
MaxWindow == 2
\* samples handed to _handle_sample when it is driven directly
MaxFed == 3

\* ------------------------------------------------------------ value model
\* Python's None, and a present value
None == <<>>
Some(x) == <<x>>

\* The label -> command table, in dict (checkbox) order
AvailableLabels == <<"Engine RPM", "Fuel Type">>

\* The label lists a user can tick: the sub-lists of the table, in table order
Selections == {<<>>, <<"Engine RPM">>, <<"Fuel Type">>, <<"Engine RPM", "Fuel Type">>}

\* What connection.query(cmd) can do: report no data, return a unit-bearing
\* quantity, return a value float() rejects, or raise
NoData == [kind |-> "null", text |-> "", magnitude |-> None]
Quantity == [kind |-> "value", text |-> "0 rpm", magnitude |-> Some(0)]
Text == [kind |-> "value", text |-> "Gasoline", magnitude |-> None]
Raises == [kind |-> "raise", text |-> "", magnitude |-> None]

\* num = float(v.magnitude) / float(v), None when the cast raises
Coerce(resp) == resp.magnitude

\* One "label=value" fragment of the per-tick line
Fragment(label, text) == [label |-> label, value |-> text]

\* A log message: its fixed text and the fragments formatted into it
Msg(text, parts) == [text |-> text, parts |-> parts]

LabelParts(labels) == [k \in 1..Len(labels) |-> Fragment(labels[k], "")]

\* time.strftime(..., time.localtime(t)): the calendar second of instant t
FormatTime(t) == t \div TicksPerSecond

VARIABLES
    variant,             \* "OBD2" (tkinter) or "OBD2-V2" (Qt)
    now,                 \* the wall clock, time.time()
    gui,                 \* where the GUI thread is: "idle", or inside a handler
    connection,          \* self.connection: "None", "connected" or "closed"
    polling,             \* self.polling, the running flag
    threads,             \* every _poll_worker thread spawned, in spawn order
    log_queue,           \* self.log_queue
    data_queue,          \* self.data_queue
    log_to_csv,          \* self.log_to_csv / log_to_csv_var
    csv_file,            \* self.csv_file: None or Some(file name)
    csv_writer,          \* self.csv_writer: None or Some(file name)
    csv_log_labels,      \* self.csv_log_labels
    files,               \* the log files on disk: name -> rows
    open_files,          \* how many file objects are open (opened and not closed)
    session_start_time,  \* self.session_start_time: None or Some(t)
    data_history,        \* self.data_history: label -> [t, v]
    pushed,              \* history: samples put on data_queue since the last reset
    recorded             \* history: samples handled since the last reset

vars == <<variant, now, gui, connection, polling, threads, log_queue, data_queue,
          log_to_csv, csv_file, csv_writer, csv_log_labels, files, open_files,
          session_start_time, data_history, pushed, recorded>>

\* The fields of the window object (and the history kept about them) as one value;
\* every handler below is a function from such a value to the one it leaves
Self ==
    [connection |-> connection, polling |-> polling, threads |-> threads,
     log_queue |-> log_queue, data_queue |-> data_queue, log_to_csv |-> log_to_csv,
     csv_file |-> csv_file, csv_writer |-> csv_writer, csv_log_labels |-> csv_log_labels,
     files |-> files, open_files |-> open_files,
     session_start_time |-> session_start_time,
     data_history |-> data_history, pushed |-> pushed, recorded |-> recorded]

\* The handler's result becomes the state
Become(s) ==
    /\ connection' = s.connection
    /\ polling' = s.polling
    /\ threads' = s.threads
    /\ log_queue' = s.log_queue
    /\ data_queue' = s.data_queue
    /\ log_to_csv' = s.log_to_csv
    /\ csv_file' = s.csv_file
    /\ csv_writer' = s.csv_writer
    /\ csv_log_labels' = s.csv_log_labels
    /\ files' = s.files
    /\ open_files' = s.open_files
    /\ session_start_time' = s.session_start_time
    /\ data_history' = s.data_history
    /\ pushed' = s.pushed
    /\ recorded' = s.recorded

\* ------------------------------------------------------------------- Init
Init ==
    /\ variant \in {"OBD2", "OBD2-V2"}
    /\ now = 0
    /\ gui = "idle"
    /\ connection = "None"
    /\ polling = FALSE
    /\ threads = <<>>
    /\ log_queue = <<>>
    /\ data_queue = <<>>
    /\ log_to_csv = TRUE
    /\ csv_file = None
    /\ csv_writer = None
    /\ csv_log_labels = <<>>
    /\ files = <<>>
    /\ open_files = 0
    /\ session_start_time = None
    /\ data_history = <<>>
    /\ pushed = <<>>
    /\ recorded = <<>>

\* ---------------------------------------------------------------- logging
\* log(msg): put the line on log_queue (the "[HH:MM:SS]" prefix is display only)
Log(s, text, parts) == [s EXCEPT !.log_queue = Append(@, Msg(text, parts))]

\* The log queue is unbounded; the model lets a step run only if its lines fit
Fits(s) == Len(s.log_queue) <= MaxLog

\* ------------------------------------------------------- acquisition loop
Threads == 1..Len(threads)

RECURSIVE TicksOf(_, _)
TicksOf(ths, k) == IF k = 0 THEN 0 ELSE ths[k].n + TicksOf(ths, k - 1)

\* Ticks begun so far, over all threads
TicksBegun == TicksOf(threads, Len(threads))

\* The sample dict before its first key is set (also what a dead local holds)
NoSample == [timestamp |-> 0, vals |-> <<>>, tid |-> 0, n |-> 0]

\* The thread start_polling creates: target=_poll_worker, args=(labels, commands, interval).
\* n counts its ticks; afterStop counts the samples it put while the flag was clear.
NewThread(labels, interval) ==
    [pc |-> "check_polling", labels |-> labels, interval |-> interval, i |-> 0,
     sample |-> NoSample, line_parts |-> <<>>, n |-> 0, afterStop |-> 0, exit |-> ""]

\* sample[label] = val
SetReading(sample, label, val) ==
    [sample EXCEPT !.vals =
        [l \in DOMAIN sample.vals \cup {label} |->
            IF l = label THEN val ELSE sample.vals[l]]]

\* The end of one pass of "for label, cmd in zip(labels, commands)"
NextParam(th) ==
    IF th.i < Len(th.labels)
       THEN [th EXCEPT !.i = th.i + 1, !.pc = "query"]
       ELSE [th EXCEPT !.pc = "log"]

\* The loop ends: the thread is over
Exit(th, why) == [th EXCEPT !.pc = "done", !.exit = why]

\* Mutant of QueryFailed: the error ends the tick, the remaining parameters
\* are not queried and the label gets no reading
QueryFailed_AbortsTick(s, t) ==
    Log([s EXCEPT !.threads[t].pc = "log"],
        "Error querying", <<Fragment(s.threads[t].labels[s.threads[t].i], "error")>>)

\* Mutant of CheckPolling: the flag is not consulted
CheckPolling_IgnoresFlag(s, t) == [s EXCEPT !.threads[t].pc = "check_conn"]

\* while self.polling ...: the first operand of the loop condition
CheckPolling(s, t) ==
    [s EXCEPT !.threads[t] = IF s.polling THEN [@ EXCEPT !.pc = "check_conn"]
                                          ELSE Exit(@, "stopped")]

\* ... and self.connection ...: the second operand
CheckConnection(s, t) ==
    [s EXCEPT !.threads[t] = IF s.connection # "None" THEN [@ EXCEPT !.pc = "check_isconn"]
                                                      ELSE Exit(@, "no_connection")]

\* Mutant of CheckIsConnected: a link that reports not connected is polled anyway
CheckIsConnected_IgnoresLink(s, t) ==
    [s EXCEPT !.threads[t] =
        IF s.connection = "None" THEN Exit(@, "error")
        ELSE [@ EXCEPT !.pc = "query", !.i = 1, !.n = @ + 1, !.line_parts = <<>>,
                       !.sample = [timestamp |-> now, vals |-> <<>>,
                                   tid |-> t, n |-> s.threads[t].n + 1]]]

\* ... and self.connection.is_connected(): the attribute is read again, and None
\* raises AttributeError outside any try. When the condition holds the tick
\* begins with sample = {"timestamp": time.time()}; line_parts = []
CheckIsConnected(s, t) ==
    [s EXCEPT !.threads[t] =
        CASE s.connection = "None"   -> Exit(@, "error")
          [] s.connection = "closed" -> Exit(@, "disconnected")
          [] OTHER ->
                [@ EXCEPT !.pc = "query", !.i = 1, !.n = @ + 1, !.line_parts = <<>>,
                          !.sample = [timestamp |-> now, vals |-> <<>>,
                                      tid |-> t, n |-> s.threads[t].n + 1]]]

\* except Exception as e: self.log(f"Error querying {label}: {e}"); sample[label] = None
QueryFailed(s, t) ==
    LET th == s.threads[t]
        label == th.labels[th.i]
    IN Log([s EXCEPT !.threads[t] =
                NextParam([th EXCEPT !.sample = SetReading(th.sample, label, None)])],
           "Error querying", <<Fragment(label, "error")>>)

\* resp = self.connection.query(cmd): the call goes out, or fails on None
IssueQuery(s, t) ==
    IF s.connection = "None"
       THEN QueryFailed(s, t)
       ELSE [s EXCEPT !.threads[t].pc = "in_query"]

\* Mutant of HandleResponse: a parameter without data gets no fragment
HandleResponse_NoFragmentForNull(th, resp) ==
    IF resp.kind = "null"
    THEN [th EXCEPT !.sample = SetReading(th.sample, th.labels[th.i], None)]
    ELSE [th EXCEPT !.sample = SetReading(th.sample, th.labels[th.i], Coerce(resp)),
                    !.line_parts = Append(@, Fragment(th.labels[th.i], resp.text))]

\* The body of the try once the link has answered with resp
HandleResponse(th, resp) ==
    LET label == th.labels[th.i] IN
    IF resp.kind = "null"
    THEN [th EXCEPT !.sample = SetReading(th.sample, label, None),
                    !.line_parts = Append(@, Fragment(label, "N/A"))]
    ELSE [th EXCEPT !.sample = SetReading(th.sample, label, Coerce(resp)),
                    !.line_parts = Append(@, Fragment(label, resp.text))]

\* Mutant of QueryReturns: a value that cannot be coerced counts as a failure
QueryReturns_CoercionIsAnError(s, t, resp) ==
    IF resp.kind = "raise" \/ (resp.kind = "value" /\ Coerce(resp) = None)
       THEN QueryFailed(s, t)
       ELSE [s EXCEPT !.threads[t] = NextParam(HandleResponse(@, resp))]

\* The outstanding query returns resp, or raises
QueryReturns(s, t, resp) ==
    IF resp.kind = "raise"
       THEN QueryFailed(s, t)
       ELSE [s EXCEPT !.threads[t] = NextParam(HandleResponse(@, resp))]

\* self.log(" | ".join(line_parts))
EmitLine(s, t) ==
    Log([s EXCEPT !.threads[t].pc = "put"], "line", s.threads[t].line_parts)

\* Mutant of PutSample: the loop also anchors the session on its sample
PutSample_AnchorsSession(s, t) ==
    [s EXCEPT !.data_queue = Append(@, s.threads[t].sample),
              !.pushed = Append(@, s.threads[t].sample),
              !.session_start_time = Some(s.threads[t].sample.timestamp),
              !.threads[t] = [@ EXCEPT !.pc = "check_polling",
                                       !.sample = NoSample, !.line_parts = <<>>, !.i = 0,
                                       !.afterStop = IF s.polling THEN @ ELSE @ + 1]]

\* Mutant of PutSample: the sample is put only while the flag is set
PutSample_OnlyWhilePolling(s, t) ==
    [s EXCEPT !.data_queue = IF s.polling THEN Append(@, s.threads[t].sample) ELSE @,
              !.pushed = IF s.polling THEN Append(@, s.threads[t].sample) ELSE @,
              !.threads[t] = [@ EXCEPT !.pc = "check_polling",
                                       !.sample = NoSample, !.line_parts = <<>>, !.i = 0,
                                       !.afterStop = IF s.polling THEN @ ELSE @ + 1]]

\* self.data_queue.put(sample); time.sleep(interval). The locals are dead
\* until the next tick rebinds them.
PutSample(s, t) ==
    [s EXCEPT !.data_queue = Append(@, s.threads[t].sample),
              !.pushed = Append(@, s.threads[t].sample),
              !.threads[t] = [@ EXCEPT !.pc = "check_polling",
                                       !.sample = NoSample, !.line_parts = <<>>, !.i = 0,
                                       !.afterStop = IF s.polling THEN @ ELSE @ + 1]]

\* The step _poll_worker takes next in thread t; resp is what the link answers
LoopStep(s, t, resp) ==
    CASE s.threads[t].pc = "check_polling" -> CheckPolling(s, t)
      [] s.threads[t].pc = "check_conn"    -> CheckConnection(s, t)
      [] s.threads[t].pc = "check_isconn"  -> CheckIsConnected(s, t)
      [] s.threads[t].pc = "query"         -> IssueQuery(s, t)
      [] s.threads[t].pc = "in_query"      -> QueryReturns(s, t, resp)
      [] s.threads[t].pc = "log"           -> EmitLine(s, t)
      [] s.threads[t].pc = "put"           -> PutSample(s, t)
      [] OTHER                             -> s

\* A step of thread t: it is at pc, and leaves the state f computes
At(t, pc, f) ==
    /\ threads[t].pc = pc
    /\ Fits(f)
    /\ Become(f)
    /\ UNCHANGED <<variant, now, gui>>

\* The model begins no tick past MaxTicks: the flag is then not read as set
CheckPollingStep(t) ==
    /\ polling => TicksBegun < MaxTicks
    /\ At(t, "check_polling", CheckPolling(Self, t))

CheckConnectionStep(t) == At(t, "check_conn", CheckConnection(Self, t))

CheckIsConnectedStep(t) == At(t, "check_isconn", CheckIsConnected(Self, t))

IssueQueryStep(t) == At(t, "query", IssueQuery(Self, t))

\* answers gives, per label, what the link may answer
QueryReturnsStep(t, answers) ==
    /\ threads[t].pc = "in_query"
    /\ \E resp \in answers[threads[t].labels[threads[t].i]] :
          At(t, "in_query", QueryReturns(Self, t, resp))

EmitLineStep(t) == At(t, "log", EmitLine(Self, t))

PutSampleStep(t) == At(t, "put", PutSample(Self, t))

\* ------------------------------------------------------------------- sink
\* Mutant of CloseCsv: the file is closed but the writer is kept
CloseCsv_KeepsWriter(s) ==
    [s EXCEPT !.open_files = IF s.csv_file # None THEN @ - 1 ELSE @,
              !.csv_file = None]

\* _close_csv(): "if self.csv_file:" the file object is closed (errors are
\* swallowed); the three fields are reset
CloseCsv(s) ==
    [s EXCEPT !.open_files = IF s.csv_file # None THEN @ - 1 ELSE @,
              !.csv_file = None, !.csv_writer = None, !.csv_log_labels = <<>>]

\* header = ["Timestamp"] + self.csv_log_labels
HeaderRow(labels) == [kind |-> "header", cells |-> <<"Timestamp">> \o labels]

\* f"obd_log_{ts}.csv" with ts = time.strftime("%Y%m%d_%H%M%S")
FileName(t) == FormatTime(t)

\* open(filename, mode="w") and the first writerow: the file is created or truncated
CreateFile(fs, name, row) ==
    [f \in DOMAIN fs \cup {name} |-> IF f = name THEN <<row>> ELSE fs[f]]

\* Mutant of OpenNewCsv: when the header cannot be written the file object
\* stays in csv_file (no _close_csv in the except branch)
OpenNewCsv_FailureLeavesFile(s, labels, ok) ==
    LET c == CloseCsv(s)
        name == FileName(now)
    IN IF ok
       THEN Log([c EXCEPT !.csv_file = Some(name), !.csv_writer = Some(name),
                          !.csv_log_labels = labels, !.open_files = @ + 1,
                          !.files = CreateFile(c.files, name, HeaderRow(labels))],
                "Logging to CSV", <<>>)
       ELSE Log([c EXCEPT !.csv_file = Some(name), !.open_files = @ + 1],
                "Failed to open CSV file", <<>>)

\* Mutant of OpenNewCsv: the sink that is still open is not closed first
OpenNewCsv_NoClose(s, labels, ok) ==
    IF ok
       THEN Log([s EXCEPT !.csv_file = Some(FileName(now)), !.csv_writer = Some(FileName(now)),
                          !.csv_log_labels = labels, !.open_files = @ + 1,
                          !.files = CreateFile(s.files, FileName(now), HeaderRow(labels))],
                "Logging to CSV", <<>>)
       ELSE CloseCsv(Log(s, "Failed to open CSV file", <<>>))

\* _open_new_csv(labels); ok is whether open() and the header write succeed
OpenNewCsv(s, labels, ok) ==
    LET c == CloseCsv(s)
        name == FileName(now)
    IN IF ok
       THEN Log([c EXCEPT !.csv_file = Some(name), !.csv_writer = Some(name),
                          !.csv_log_labels = labels, !.open_files = @ + 1,
                          !.files = CreateFile(c.files, name, HeaderRow(labels))],
                "Logging to CSV", <<>>)
       ELSE CloseCsv(Log(c, "Failed to open CSV file", <<>>))

\* Mutant of CsvRow: a missing reading is skipped instead of written as ""
CsvRow_SkipsMissing(sample, labels) ==
    LET present == SelectSeq(labels, LAMBDA l : /\ l \in DOMAIN sample.vals
                                                 /\ sample.vals[l] # None)
    IN [kind |-> "data",
        cells |-> <<Some(FormatTime(sample.timestamp))>> \o
                  [k \in 1..Len(present) |-> sample.vals[present[k]]]]

\* row = [strftime(timestamp)] + ["" if v is None else v for lbl in csv_log_labels];
\* sample.get(lbl) is None for a label the sample lacks, and None stands for ""
CsvRow(sample, labels) ==
    [kind |-> "data",
     cells |-> <<Some(FormatTime(sample.timestamp))>> \o
               [k \in 1..Len(labels) |->
                   IF labels[k] \in DOMAIN sample.vals THEN sample.vals[labels[k]] ELSE None]]

\* Mutant of WriteSample: a failed write is logged but the sink stays open
WriteSample_KeepsSinkOpen(s, sample, ok) ==
    IF s.csv_writer = None THEN s
    ELSE IF ok
         THEN [s EXCEPT !.files[s.csv_writer[1]] = Append(@, CsvRow(sample, s.csv_log_labels))]
         ELSE Log(s, "CSV write error", <<>>)

\* The "CSV write" block of _handle_sample; ok is whether writerow succeeds
WriteSample(s, sample, ok) ==
    IF s.csv_writer = None THEN s
    ELSE IF ok
         THEN [s EXCEPT !.files[s.csv_writer[1]] = Append(@, CsvRow(sample, s.csv_log_labels))]
         ELSE CloseCsv(Log(s, "CSV write error", <<>>))

\* ------------------------------------------------------------------ store
\* Python truthiness of an optional number: None and 0.0 are falsy
Falsy(opt) == opt = None \/ opt[1] = 0

\* "if self.session_start_time is None" (Qt) / "if not self.session_start_time" (tkinter)
NeedsAnchor(sst) == IF variant = "OBD2" THEN Falsy(sst) ELSE sst = None

\* session_start_time after the first two lines of _handle_sample
Anchor(sst, sample) == IF NeedsAnchor(sst) THEN Some(sample.timestamp) ELSE sst

EmptySeries == [t |-> <<>>, v |-> <<>>]

\* Mutant of StoreSample: "if val:" in place of "if val is not None:", so a
\* reading of 0 is dropped like a null one
StoreSample_Truthy(hist, sample, t_rel) ==
    [l \in DOMAIN hist \cup DOMAIN sample.vals |->
        IF l \notin DOMAIN sample.vals THEN hist[l]
        ELSE LET old == IF l \in DOMAIN hist THEN hist[l] ELSE EmptySeries
             IN IF ~Falsy(sample.vals[l])
                THEN [t |-> Append(old.t, t_rel), v |-> Append(old.v, sample.vals[l][1])]
                ELSE old]

\* The "Store full session" loop of _handle_sample
StoreSample(hist, sample, t_rel) ==
    [l \in DOMAIN hist \cup DOMAIN sample.vals |->
        IF l \notin DOMAIN sample.vals THEN hist[l]
        ELSE LET old == IF l \in DOMAIN hist THEN hist[l] ELSE EmptySeries
             IN IF sample.vals[l] # None
                THEN [t |-> Append(old.t, t_rel), v |-> Append(old.v, sample.vals[l][1])]
                ELSE old]

\* Mutant of HandleSample: a sample taken from the queue while the flag is
\* clear is dropped
HandleSample_OnlyWhilePolling(s, sample, writeOk) ==
    LET sst == Anchor(s.session_start_time, sample)
        t_rel == sample.timestamp - sst[1]
        stored == [s EXCEPT !.session_start_time = sst,
                            !.data_history = StoreSample(@, sample, t_rel),
                            !.recorded = Append(@,
                                [sample |-> sample,
                                 written |-> IF writeOk THEN s.csv_writer ELSE None])]
    IN IF s.polling THEN WriteSample(stored, sample, writeOk) ELSE s

\* _handle_sample(sample); recorded notes the sample and the file it was written to
HandleSample(s, sample, writeOk) ==
    LET sst == Anchor(s.session_start_time, sample)
        t_rel == sample.timestamp - sst[1]
        stored == [s EXCEPT !.session_start_time = sst,
                            !.data_history = StoreSample(@, sample, t_rel),
                            !.recorded = Append(@,
                                [sample |-> sample,
                                 written |-> IF writeOk THEN s.csv_writer ELSE None])]
    IN WriteSample(stored, sample, writeOk)

\* ------------------------------------------------------------------- plot
\* Mutant of Window: the bound of the window is excluded ("t > t0")
Window_Strict(series, W) ==
    LET n == IF Len(series.t) <= Len(series.v) THEN Len(series.t) ELSE Len(series.v)
        t0 == series.t[Len(series.t)] - W
        kept == SelectSeq([k \in 1..n |-> k], LAMBDA k : series.t[k] > t0)
    IN [t |-> [j \in 1..Len(kept) |-> series.t[kept[j]]],
        v |-> [j \in 1..Len(kept) |-> series.v[kept[j]]]]

\* Mutant of Window: the window is half-open at its newer end ("t0 <= t < t_last")
Window_BeforeLast(series, W) ==
    LET n == IF Len(series.t) <= Len(series.v) THEN Len(series.t) ELSE Len(series.v)
        t_last == series.t[Len(series.t)]
        t0 == t_last - W
        kept == SelectSeq([k \in 1..n |-> k],
                          LAMBDA k : series.t[k] >= t0 /\ series.t[k] < t_last)
    IN [t |-> [j \in 1..Len(kept) |-> series.t[kept[j]]],
        v |-> [j \in 1..Len(kept) |-> series.v[kept[j]]]]

\* t_last = t_all[-1]; t0 = t_last - window_sec;
\* filtered = [(t, v) for t, v in zip(t_all, v_all) if t >= t0], unzipped again.
\* W is window_sec in clock instants.
Window(series, W) ==
    LET n == IF Len(series.t) <= Len(series.v) THEN Len(series.t) ELSE Len(series.v)
        t0 == series.t[Len(series.t)] - W
        kept == SelectSeq([k \in 1..n |-> k], LAMBDA k : series.t[k] >= t0)
    IN [t |-> [j \in 1..Len(kept) |-> series.t[kept[j]]],
        v |-> [j \in 1..Len(kept) |-> series.v[kept[j]]]]

\* Mutant of Project: a window of 0 is applied as a window ("window_sec >= 0")
Project_ZeroIsAWindow(series, W) ==
    IF series.t = <<>> \/ series.v = <<>> THEN EmptySeries
    ELSE IF W >= 0 THEN Window(series, W)
    ELSE series

\* What refresh_plot hands to ax.plot for one series: nothing when the series
\* is empty, the window when window_sec > 0, else all of it
Project(series, W) ==
    IF series.t = <<>> \/ series.v = <<>> THEN EmptySeries
    ELSE IF W > 0 THEN Window(series, W)
    ELSE series

\* What is drawn for the label chosen in a graph combo: the Qt variant applies
\* the graph window, the tkinter variant has none and draws the whole series
Plotted(hist, label, W) ==
    IF label \notin DOMAIN hist THEN EmptySeries
    ELSE IF variant = "OBD2"
         THEN (IF hist[label].t # <<>> /\ hist[label].v # <<>> THEN hist[label] ELSE EmptySeries)
         ELSE Project(hist[label], W)

\* ------------------------------------------------------------- controller
\* "Reset in-memory data": the sample queue, the history and the anchor
ResetSession(s) ==
    [s EXCEPT !.data_queue = <<>>, !.data_history = <<>>, !.session_start_time = None,
              !.pushed = <<>>, !.recorded = <<>>]

\* Why start_polling returns early, "" when it goes ahead
StartRejection(s, labels, interval) ==
    CASE s.connection # "connected" -> "NotConnected"
      [] labels = <<>>              -> "InvalidConfig"
      [] interval <= 0              -> "InvalidConfig"
      [] s.polling                  -> "AlreadyRunning"
      [] OTHER                      -> ""

\* Mutant of StartRejected: the session reset runs before the checks
StartRejected_ResetFirst(s, why) ==
    ResetSession(IF why = "AlreadyRunning" /\ variant = "OBD2-V2"
                    THEN Log(s, "Already polling.", <<>>)
                    ELSE s)

\* The early returns of start_polling: message boxes, and in the Qt variant
\* self.log("Already polling.")
StartRejected(s, why) ==
    IF why = "AlreadyRunning" /\ variant = "OBD2-V2"
       THEN Log(s, "Already polling.", <<>>)
       ELSE s

\* threading.Thread(target=self._poll_worker, ...).start()
SpawnThread(s, labels, interval) ==
    [s EXCEPT !.threads = Append([k \in DOMAIN @ |-> [@[k] EXCEPT !.afterStop = 0]],
                                 NewThread(labels, interval))]

\* Mutant of StartAccepted: a failed open of the CSV file ends the start
StartAccepted_AbortsOnOpenFailure(s, labels, interval, openOk) ==
    LET reset == ResetSession(s)
        csv == IF reset.log_to_csv THEN OpenNewCsv(reset, labels, openOk) ELSE CloseCsv(reset)
        flagged == [csv EXCEPT !.polling = TRUE]
    IN IF reset.log_to_csv /\ ~openOk
          THEN csv
          ELSE SpawnThread(Log(flagged, "Starting live data", LabelParts(labels)),
                           labels, interval)

\* start_polling() past its checks: reset, CSV setup, flag, log line, thread
StartAccepted(s, labels, interval, openOk) ==
    LET reset == ResetSession(s)
        csv == IF reset.log_to_csv THEN OpenNewCsv(reset, labels, openOk) ELSE CloseCsv(reset)
        flagged == [csv EXCEPT !.polling = TRUE]
    IN SpawnThread(Log(flagged, "Starting live data", LabelParts(labels)), labels, interval)

\* start_polling()
StartPolling(s, labels, interval, openOk) ==
    IF StartRejection(s, labels, interval) # ""
       THEN StartRejected(s, StartRejection(s, labels, interval))
       ELSE StartAccepted(s, labels, interval, openOk)

\* Mutant of ClearFlag: the "Stopping" line is logged whatever the flag was
ClearFlag_AlwaysLogs(s) ==
    Log([s EXCEPT !.polling = FALSE,
                  !.threads = [k \in DOMAIN @ |-> [@[k] EXCEPT !.afterStop = 0]]],
        "Stopping live data...", <<>>)

\* The "if self.polling:" block of stop_polling
ClearFlag(s) ==
    IF s.polling
       THEN Log([s EXCEPT !.polling = FALSE,
                          !.threads = [k \in DOMAIN @ |-> [@[k] EXCEPT !.afterStop = 0]]],
                "Stopping live data...", <<>>)
       ELSE s

\* stop_polling()
StopPolling(s) == CloseCsv(ClearFlag(s))

\* The log loop of _process_queues: every line goes to the log widget
DrainLogs(s) == [s EXCEPT !.log_queue = <<>>]

\* Mutant of DrainData: the newest sample is taken first (a LIFO channel)
RECURSIVE DrainData_NewestFirst(_, _)
DrainData_NewestFirst(s, failAt) ==
    IF s.data_queue = <<>> THEN s
    ELSE DrainData_NewestFirst(
             HandleSample([s EXCEPT !.data_queue = SubSeq(@, 1, Len(@) - 1)],
                          s.data_queue[Len(s.data_queue)], failAt # 1),
             failAt - 1)

\* The data loop of _process_queues: get_nowait() and _handle_sample until Empty;
\* failAt is the position of the sample whose writerow raises (0: none does)
RECURSIVE DrainData(_, _)
DrainData(s, failAt) ==
    IF s.data_queue = <<>> THEN s
    ELSE DrainData(HandleSample([s EXCEPT !.data_queue = Tail(@)],
                                Head(s.data_queue), failAt # 1),
                   failAt - 1)

\* _on_log_csv_changed(state); in the tkinter variant the checkbox only sets
\* log_to_csv_var, which start_polling reads: no handler runs
OnLogCsvChanged(s, checked) ==
    IF checked \/ variant = "OBD2"
       THEN [s EXCEPT !.log_to_csv = checked]
       ELSE CloseCsv([s EXCEPT !.log_to_csv = FALSE])

\* connect_obd() / connect(); ok is whether the ECU answers on the port
ConnectObd(s, ok) ==
    IF s.connection = "connected"
       THEN IF variant = "OBD2-V2" THEN Log(s, "Already connected.", <<>>) ELSE s
       ELSE LET tried == Log(s, "Connecting", <<>>)
            IN IF ok THEN Log([tried EXCEPT !.connection = "connected"], "Connected to ECU.", <<>>)
                     ELSE [Log(tried, "ECU connection failed.", <<>>) EXCEPT !.connection = "None"]

\* disconnect_obd() / disconnect(): stop, close the link, drop the reference
DisconnectObd(s) ==
    Log([StopPolling(s) EXCEPT !.connection = "None"], "Disconnected from ECU.", <<>>)

\* read_dtc() / clear_dtc() answered by resp
DtcReport(s, cmd, resp) ==
    Log(s, CASE resp.kind = "raise" -> "Error in DTC query"
             [] resp.kind = "null"  -> "No response or unsupported command."
             [] cmd = "read_dtc"    -> "Stored DTCs"
             [] OTHER               -> "Clear DTC command sent.",
        <<>>)

\* _process_queues(), entered by the 100 ms timer
ProcessQueues(s, failAt) == DrainData(DrainLogs(s), failAt)

\* -------------------------------------------------------- GUI thread steps
\* The GUI thread runs one handler at a time
Handler(f) ==
    /\ gui = "idle"
    /\ Fits(f)
    /\ Become(f)
    /\ UNCHANGED <<variant, now, gui>>

\* start_polling() with the labels ticked, the interval entered, and open() working or not
Start(selections, intervals, opens) ==
    \E labels \in selections, interval \in intervals, openOk \in opens :
        /\ StartRejection(Self, labels, interval) = "" => Len(threads) < MaxThreads
        /\ Handler(StartPolling(Self, labels, interval, openOk))

Stop == Handler(StopPolling(Self))

\* The timer fires; writes is whether writerow may raise
Pump(writes) ==
    \E failAt \in 0..Len(data_queue) :
        /\ failAt = 0 \/ (FALSE \in writes /\ csv_writer # None)
        /\ Handler(ProcessQueues(Self, failAt))

ToggleCsv == \E checked \in BOOLEAN : Handler(OnLogCsvChanged(Self, checked))

Connect(answers) == \E ok \in answers : Handler(ConnectObd(Self, ok))

Disconnect == Handler(DisconnectObd(Self))

\* read_dtc() / clear_dtc() up to the query call on the GUI thread
DtcBegin ==
    \E cmd \in {"read_dtc", "clear_dtc"} :
        /\ gui = "idle"
        /\ connection = "connected"
        /\ Fits(Log(Self, "DTC query", <<>>))
        /\ Become(Log(Self, "DTC query", <<>>))
        /\ gui' = cmd
        /\ UNCHANGED <<variant, now>>

\* read_dtc() / clear_dtc() once the query has returned
DtcEnd ==
    \E resp \in {NoData, Quantity, Raises} :
        /\ gui \in {"read_dtc", "clear_dtc"}
        /\ Fits(DtcReport(Self, gui, resp))
        /\ Become(DtcReport(Self, gui, resp))
        /\ gui' = "idle"
        /\ UNCHANGED <<variant, now>>

\* --------------------------------------------------------------- environment
\* The wall clock advances
Tick ==
    /\ now < MaxTime
    /\ now' = now + 1
    /\ UNCHANGED <<gui, variant, connection, polling, threads, log_queue, data_queue,
                   log_to_csv, csv_file, csv_writer, csv_log_labels, files, open_files,
                   session_start_time, data_history, pushed, recorded>>

\* The wall clock reaches the start of the next calendar second
NextSecond ==
    /\ FormatTime(now) < MaxSeconds
    /\ now' = (FormatTime(now) + 1) * TicksPerSecond
    /\ UNCHANGED <<gui, variant, connection, polling, threads, log_queue, data_queue,
                   log_to_csv, csv_file, csv_writer, csv_log_labels, files, open_files,
                   session_start_time, data_history, pushed, recorded>>

\* The link drops: is_connected() turns false
LinkDrop ==
    /\ connection = "connected"
    /\ Become([Self EXCEPT !.connection = "closed"])
    /\ UNCHANGED <<variant, now, gui>>

\* ------------------------------------------------------------------- Next
\* Values of the interval spin box / entry
Intervals == {0, 1}

\* The acquisition loop of thread t
Loop(t, answers) ==
    \/ CheckPollingStep(t)
    \/ CheckConnectionStep(t)
    \/ CheckIsConnectedStep(t)
    \/ IssueQueryStep(t)
    \/ QueryReturnsStep(t, answers)
    \/ EmitLineStep(t)
    \/ PutSampleStep(t)

\* The pipeline: the loops, start, stop and pump, on a link that connects
Pipeline(selections, answers, opens, writes) ==
    \/ \E t \in Threads : Loop(t, answers)
    \/ Start(selections, Intervals, opens)
    \/ Stop
    \/ Pump(writes)
    \/ Connect({TRUE})

\* Two labels, every kind of answer, the clock running
DataAnswers == [l \in {"Engine RPM", "Fuel Type"} |->
                   IF l = "Engine RPM" THEN {NoData, Quantity} ELSE {Text, Raises}]

Next ==
    \/ Pipeline({<<>>, <<"Engine RPM", "Fuel Type">>}, DataAnswers, {TRUE}, {TRUE})
    \/ Tick

Spec == Init /\ [][Next]_vars

\* One label, the link and the GUI thread's own queries coming and going
RaceAnswers == [l \in {"Engine RPM"} |-> {NoData, Quantity}]

NextRace ==
    \/ Pipeline({<<"Engine RPM">>}, RaceAnswers, {TRUE}, {TRUE})
    \/ Disconnect
    \/ LinkDrop
    \/ DtcBegin
    \/ DtcEnd

SpecRace == Init /\ [][NextRace]_vars

\* One label that always has a reading, the CSV box toggled, open() and
\* writerow failing or not, sessions in the same calendar second and in later ones
SinkAnswers == [l \in {"Engine RPM"} |-> {Quantity}]

NextSink ==
    \/ Pipeline({<<"Engine RPM">>}, SinkAnswers, BOOLEAN, BOOLEAN)
    \/ ToggleCsv
    \/ NextSecond

SpecSink == Init /\ [][NextSink]_vars

\* One label answering with a value; the 100 ms timer keeps firing:
\* _process_queues re-arms itself on every run, so a run that has work to do
\* is not postponed for ever
LiveAnswers == [l \in {"Engine RPM"} |-> {NoData, Quantity}]

NextLive == Pipeline({<<"Engine RPM">>}, LiveAnswers, {TRUE}, {TRUE})

\* One pass of the data loop of _process_queues, no write failing
DrainOne(s) ==
    IF s.data_queue = <<>> THEN s
    ELSE HandleSample([s EXCEPT !.data_queue = Tail(@)], Head(s.data_queue), TRUE)

\* The data loop of _process_queues from state s on: pass by pass until the
\* channel is empty, each pass computed once; what is left becomes the state
RECURSIVE TimerRun(_)
TimerRun(s) ==
    IF s.data_queue = <<>> THEN Handler(s)
    ELSE \E r \in {DrainOne(s)} : TimerRun(r)

\* _process_queues() as the 100 ms timer runs it: the log loop, then the data
\* loop. The same step as Pump({TRUE}).
TimerFires == \E r \in {DrainLogs(Self)} : TimerRun(r)

SpecLive == Init /\ [][NextLive]_vars /\ WF_vars(TimerFires)

\* Samples of any timestamp read so far, with no reading or one of two numbers
FedSamples ==
    {[timestamp |-> ts, vals |-> [l \in {"Engine RPM"} |-> r], tid |-> 0, n |-> 0] :
        ts \in 0..now, r \in {None, Some(0), Some(1)}}

\* _handle_sample(sample) driven directly, so that the series of the store take
\* every order of times
Feed ==
    /\ Len(recorded) < MaxFed
    /\ \E sample \in FedSamples : Handler(HandleSample(Self, sample, TRUE))

NextPlot == Feed \/ Tick \/ NextSecond

SpecPlot == Init /\ [][NextPlot]_vars

\* ================================================================== claims
AliveThreads == {t \in Threads : threads[t].pc # "done"}

\* The thread of the current session is the one spawned last
Stale(sample) == sample.tid # Len(threads)

\* C1: at most one acquisition loop (_poll_worker thread) is alive at any time,
\* also when start() follows a stop() whose loop has not yet ended.
C1_AtMostOneLoopAlive == Cardinality(AliveThreads) <= 1

\* C2: no Sample produced by the loop of an earlier session is recorded into the
\* Session Store of the current session or written to its Durable Sink.
C2_NoStaleSampleRecorded ==
    \A k \in 1..Len(recorded) : ~Stale(recorded[k].sample)

\* Link queries outstanding: the loops inside query(), and the GUI thread inside
\* read_dtc / clear_dtc
Outstanding ==
    Cardinality({t \in Threads : threads[t].pc = "in_query"})
        + (IF gui \in {"read_dtc", "clear_dtc"} THEN 1 ELSE 0)

\* C3: at most one link query is outstanding, and the consumer side (read_dtc,
\* clear_dtc) issues none while an acquisition loop is alive.
C3_SingleLinkUser ==
    /\ Outstanding <= 1
    /\ gui \in {"read_dtc", "clear_dtc"} => AliveThreads = {}

\* The fields a rejected start() must leave alone
Untouched(r, s) ==
    /\ r.data_history = s.data_history
    /\ r.session_start_time = s.session_start_time
    /\ r.data_queue = s.data_queue
    /\ r.csv_file = s.csv_file
    /\ r.csv_writer = s.csv_writer
    /\ r.csv_log_labels = s.csv_log_labels
    /\ r.files = s.files
    /\ r.polling = s.polling
    /\ r.threads = s.threads
    /\ r.recorded = s.recorded

HasLine(q, text) == \E k \in 1..Len(q) : q[k].text = text

\* C4: a start() that is rejected (no label, interval <= 0, flag already set)
\* leaves the Session Store, the anchor, the sample channel, the sink, its label
\* order and the flag unchanged and spawns no thread: nothing but the log queue
\* differs, so every running loop goes on as before.
C4_RejectedStartChangesNothing ==
    \A labels \in {<<>>, <<"Engine RPM">>}, interval \in Intervals :
        LET r == StartPolling(Self, labels, interval, TRUE) IN
        StartRejection(Self, labels, interval) # "" =>
            /\ Untouched(r, Self)
            /\ [r EXCEPT !.log_queue = log_queue] = Self

\* C4 witness: a second start() was refused ("Already polling." is queued) while
\* the first loop is in a tick and one of its samples is recorded.
C4_Witness ==
    /\ HasLine(log_queue, "Already polling.")
    /\ polling
    /\ \E t \in Threads : threads[t].pc = "in_query"
    /\ recorded # <<>>

\* C5: once stop() has cleared the flag (and no start() follows), a loop that
\* reads the flag at its loop-top check exits there, and it has put at most one
\* Sample (the tick in flight) since the flag was cleared.
C5_StopEndsLoop ==
    \A t \in Threads :
        /\ threads[t].afterStop <= 1
        /\ (~polling /\ threads[t].pc = "check_polling") =>
              /\ CheckPolling(Self, t).threads[t].pc = "done"
              /\ CheckPolling(Self, t).data_queue = data_queue
        /\ threads[t].pc = "done" => LoopStep(Self, t, NoData) = Self

\* C5 witness: a loop has put its in-flight Sample after stop() and then ended
\* at the loop-top check.
C5_Witness ==
    /\ ~polling
    /\ \E t \in Threads : /\ threads[t].afterStop = 1
                          /\ threads[t].pc = "done"
                          /\ threads[t].exit = "stopped"

\* C6: when the link reports not connected at the loop-top check the loop
\* begins no tick, puts no Sample and ends, stop() or not; an ended loop takes
\* no further step.
C6_DisconnectEndsLoop ==
    \A t \in Threads :
        /\ (threads[t].pc = "check_isconn" /\ connection = "closed") =>
              LET r == CheckIsConnected(Self, t) IN
              /\ r.threads[t].pc = "done"
              /\ r.threads[t].n = threads[t].n
              /\ r.data_queue = data_queue
              /\ r.pushed = pushed
        /\ threads[t].exit = "disconnected" =>
              /\ threads[t].pc = "done"
              /\ LoopStep(Self, t, NoData) = Self

\* C6 witness: a loop has ended on the dropped link while the flag is still set.
C6_Witness ==
    /\ polling
    /\ connection = "closed"
    /\ \E t \in Threads : threads[t].exit = "disconnected" /\ threads[t].n > 0

\* C7: stop() in any reachable state leaves the flag clear and the sink closed,
\* and a second stop() right after it changes nothing (no second "Stopping" line).
C7_StopIdempotent ==
    LET r == StopPolling(Self) IN
    /\ ~r.polling
    /\ r.csv_file = None /\ r.csv_writer = None /\ r.csv_log_labels = <<>>
    /\ Len(r.log_queue) <= Len(log_queue) + 1
    /\ StopPolling(r) = r

\* C7 witness: stop() has run on a running session with the sink open: the flag
\* is clear, the sink closed, its file on disk, one "Stopping" line queued.
C7_Witness ==
    /\ ~polling
    /\ csv_file = None
    /\ files # <<>>
    /\ HasLine(log_queue, "Stopping live data...")
    /\ AliveThreads # {}

\* The samples recorded since the last reset that carry a non-null reading of l
NonNull(l) ==
    {k \in DOMAIN recorded :
        /\ l \in DOMAIN recorded[k].sample.vals
        /\ recorded[k].sample.vals[l] # None}

\* C8: for every label, the series of that label in the session store holds
\* exactly one point (a time and a value) per recorded sample whose reading of
\* that label was non-null, and none for a null reading; a label no recorded
\* sample carries has no series
C8_OnePointPerNonNullReading ==
    \A l \in {AvailableLabels[k] : k \in DOMAIN AvailableLabels} :
        IF l \in DOMAIN data_history
           THEN /\ Len(data_history[l].t) = Cardinality(NonNull(l))
                /\ Len(data_history[l].v) = Cardinality(NonNull(l))
                /\ \E k \in DOMAIN recorded : l \in DOMAIN recorded[k].sample.vals
           ELSE \A k \in DOMAIN recorded : l \notin DOMAIN recorded[k].sample.vals

\* Two samples recorded, one with a reading of "Engine RPM" and one without,
\* none with a reading of "Fuel Type": the two series differ in length
C8_Witness ==
    /\ Len(recorded) = 2
    /\ Cardinality(NonNull("Engine RPM")) = 1
    /\ Len(data_history["Engine RPM"].v) = 1
    /\ Len(data_history["Fuel Type"].v) = 0

\* C9: the samples recorded since the last reset, followed by those still on
\* the sample channel, are the samples pushed since that reset, in the order
\* they were pushed: recording follows arrival order, loses and repeats nothing
C9_RecordedInArrivalOrder ==
    [k \in 1..Len(recorded) |-> recorded[k].sample] \o data_queue = pushed

\* Two different samples recorded, the first pushed being the first recorded
C9_Witness ==
    /\ Len(recorded) >= 2
    /\ recorded[1].sample # recorded[2].sample
    /\ pushed[1] = recorded[1].sample

\* C10: once a sample is recorded, session_start_time is the timestamp of the
\* first sample recorded since the reset, whatever that timestamp is, and no
\* later sample changes it
C10_AnchoredOnce ==
    recorded # <<>> => session_start_time = Some(recorded[1].sample.timestamp)

\* The relative times of a series never decrease and are never negative
Monotone(ts) ==
    /\ \A k \in 1..Len(ts) : ts[k] >= 0
    /\ \A k \in 1..Len(ts) - 1 : ts[k] <= ts[k + 1]

\* C11: every series of the session store is non-decreasing in relative time,
\* and no relative time is negative, whatever the interleaving of start, stop,
\* the timer and the loops' ticks, the clock never going backwards
C11_SeriesMonotone ==
    \A l \in DOMAIN data_history : Monotone(data_history[l].t)

\* C12: with the CSV box ticked and no write failing, every sample recorded
\* since the session began has one data row in the session's file: all of them
\* were written to the same file, which holds its header and one row per
\* recorded sample, whatever the interleaving of ticks, the timer and stop()
C12_OneRowPerSample ==
    (log_to_csv /\ recorded # <<>>) =>
        \E f \in DOMAIN files :
            /\ \A k \in DOMAIN recorded : recorded[k].written = Some(f)
            /\ Len(files[f]) = 1 + Len(recorded)

LabelSet == {AvailableLabels[k] : k \in DOMAIN AvailableLabels}

\* Samples as _handle_sample may be handed them: any set of labels, each reading
\* null or a number
SampleInputs ==
    {[timestamp |-> now, vals |-> v, tid |-> 0, n |-> 0] :
        v \in UNION {[S -> {None, Some(0)}] : S \in SUBSET LabelSet}}

\* The row has the time and then, per label of the order, the sample's reading
\* of that label or the empty field
RowFollows(row, sample, labels) ==
    /\ row.kind = "data"
    /\ Len(row.cells) = Len(labels) + 1
    /\ row.cells[1] = Some(FormatTime(sample.timestamp))
    /\ \A i \in 1..Len(labels) :
          row.cells[i + 1] = IF labels[i] \in DOMAIN sample.vals /\ sample.vals[labels[i]] # None
                                THEN sample.vals[labels[i]]
                                ELSE None

\* C13: a row written while the sink is open with label order l1..ln has n+1
\* fields: the time, then per li the sample's reading or an empty field when the
\* reading is null or the sample lacks li; no other reading is written; writing
\* leaves the order as it was, and the order is the one the file's header gives
C13_RowFollowsLabelOrder ==
    /\ \A labels \in Selections, sample \in SampleInputs :
          RowFollows(CsvRow(sample, labels), sample, labels)
    /\ csv_writer # None =>
          /\ files[csv_writer[1]][1] = HeaderRow(csv_log_labels)
          /\ \A k \in 2..Len(files[csv_writer[1]]) :
                /\ files[csv_writer[1]][k].kind = "data"
                /\ Len(files[csv_writer[1]][k].cells) = Len(csv_log_labels) + 1
          /\ \A sample \in SampleInputs :
                LET r == WriteSample(Self, sample, TRUE) IN
                /\ r.csv_log_labels = csv_log_labels
                /\ r.files[csv_writer[1]][1] = files[csv_writer[1]][1]
                /\ Len(r.files[csv_writer[1]]) = Len(files[csv_writer[1]]) + 1
                /\ RowFollows(r.files[csv_writer[1]][Len(r.files[csv_writer[1]])],
                              sample, csv_log_labels)

\* The open file holds a row with a reading of "Engine RPM" and an empty field
\* for "Fuel Type"
C13_Witness ==
    /\ csv_writer # None
    /\ csv_log_labels = <<"Engine RPM", "Fuel Type">>
    /\ \E k \in 2..Len(files[csv_writer[1]]) :
          /\ files[csv_writer[1]][k].cells[2] = Some(0)
          /\ files[csv_writer[1]][k].cells[3] = None

\* How many lines of the queue q carry the text
Lines(q, text) == Cardinality({k \in 1..Len(q) : q[k].text = text})

\* C14: when the write of a sample's row fails during the timer's run, the run
\* still empties the sample queue and records every sample, the failing one
\* included; one "CSV write error" line is queued and no more; the rows before
\* the failure are in the file and none after it; the sink is closed and the
\* flag is as it was. With the sink closed, handling a further sample touches no
\* file and queues no line, and nothing but start_polling opens the sink again.
C14_WriteFailureClosesSink ==
    /\ csv_writer # None =>
          \A failAt \in 1..Len(data_queue) :
              LET r == ProcessQueues(Self, failAt) IN
              /\ r.data_queue = <<>>
              /\ Len(r.recorded) = Len(recorded) + Len(data_queue)
              /\ r.recorded[Len(recorded) + failAt].sample = data_queue[failAt]
              /\ r.log_queue = <<Msg("CSV write error", <<>>)>>
              /\ r.csv_writer = None /\ r.csv_file = None /\ r.open_files = open_files - 1
              /\ r.polling = polling
              /\ r.files = [files EXCEPT ![csv_writer[1]] =
                               @ \o [k \in 1..failAt - 1 |->
                                        CsvRow(data_queue[k], csv_log_labels)]]
              /\ \A sample \in SampleInputs, ok \in BOOLEAN :
                    LET h == HandleSample(r, sample, ok) IN
                    /\ h.files = r.files
                    /\ h.log_queue = r.log_queue
                    /\ h.csv_writer = None
    /\ csv_writer = None =>
          /\ \A failAt \in 0..Len(data_queue) : ProcessQueues(Self, failAt).csv_writer = None
          /\ \A checked \in BOOLEAN : OnLogCsvChanged(Self, checked).csv_writer = None
          /\ StopPolling(Self).csv_writer = None
          /\ \A t \in Threads, resp \in {NoData, Quantity, Raises} :
                LoopStep(Self, t, resp).csv_writer = None

\* A write failed while two samples were queued: both are recorded, neither
\* has a row, one error line is queued, the sink is closed, the flag still set
C14_Witness ==
    /\ polling
    /\ csv_writer = None
    /\ log_to_csv
    /\ Lines(log_queue, "CSV write error") = 1
    /\ Len(recorded) = 2
    /\ recorded[1].written = None /\ recorded[2].written = None

\* The labels at positions 1..n of the list
Upto(labels, n) == {labels[k] : k \in 1..n}

\* The reading a response leaves in the sample
ReadingOf(resp) == IF resp.kind = "value" THEN resp.magnitude ELSE None

\* C15: within a tick the parameters are queried one at a time in list order;
\* whatever a query does (value, no data, error raised) the sample gets the
\* reading of that label (None for no data and for an error), the loop goes on
\* to the next parameter or to the end of the tick and does not end, and the
\* sample put on the queue has a reading for every requested label and no other
C15_TickCoversEveryParameter ==
    \A t \in Threads :
        LET th == threads[t] IN
        /\ th.pc \in {"query", "in_query"} =>
              /\ th.i \in 1..Len(th.labels)
              /\ DOMAIN th.sample.vals = Upto(th.labels, th.i - 1)
        /\ th.pc \in {"log", "put"} => DOMAIN th.sample.vals = Upto(th.labels, Len(th.labels))
        /\ th.pc = "in_query" =>
              \A resp \in {NoData, Quantity, Text, Raises} :
                  LET r == QueryReturns(Self, t, resp).threads[t] IN
                  /\ DOMAIN r.sample.vals = Upto(th.labels, th.i)
                  /\ r.sample.vals[th.labels[th.i]] = ReadingOf(resp)
                  /\ \A l \in DOMAIN th.sample.vals : r.sample.vals[l] = th.sample.vals[l]
                  /\ IF th.i < Len(th.labels)
                        THEN r.pc = "query" /\ r.i = th.i + 1
                        ELSE r.pc = "log"
                  /\ r.n = th.n
        /\ \A k \in DOMAIN pushed :
              pushed[k].tid = t => DOMAIN pushed[k].vals = Upto(th.labels, Len(th.labels))

\* A sample is on the queue whose first parameter had a reading and whose
\* second raised: both labels are in it, and the error line was queued
C15_Witness ==
    /\ HasLine(log_queue, "Error querying")
    /\ \E k \in DOMAIN data_queue :
          /\ DOMAIN data_queue[k].vals = {"Engine RPM", "Fuel Type"}
          /\ data_queue[k].vals["Engine RPM"] = Some(0)
          /\ data_queue[k].vals["Fuel Type"] = None

\* Ticks thread t has completed: those begun, less the one it is inside
Completed(t) ==
    threads[t].n - (IF threads[t].pc \in {"query", "in_query", "log", "put"} THEN 1 ELSE 0)

\* Positions of the samples thread t has put since the last reset
PushedBy(t) == {k \in DOMAIN pushed : pushed[k].tid = t}

\* C16: the end of a tick queues one aggregated line and then puts one sample,
\* the one the tick built; per thread the samples put are those of distinct
\* completed ticks, and for the thread of the current session there is exactly
\* one per completed tick; no handler of the GUI thread puts a sample
C16_OneSamplePerTick ==
    /\ \A t \in Threads :
          /\ \A k \in PushedBy(t) : pushed[k].n \in 1..Completed(t)
          /\ \A j, k \in PushedBy(t) : pushed[j].n = pushed[k].n => j = k
          /\ t = Len(threads) => Cardinality(PushedBy(t)) = Completed(t)
          /\ threads[t].pc = "log" =>
                /\ EmitLine(Self, t).log_queue =
                       Append(log_queue, Msg("line", threads[t].line_parts))
                /\ EmitLine(Self, t).data_queue = data_queue
                /\ EmitLine(Self, t).threads[t].pc = "put"
          /\ threads[t].pc = "put" =>
                /\ PutSample(Self, t).data_queue = Append(data_queue, threads[t].sample)
                /\ PutSample(Self, t).pushed = Append(pushed, threads[t].sample)
                /\ PutSample(Self, t).log_queue = log_queue
                /\ threads[t].sample.n = threads[t].n
    /\ \A r \in {StopPolling(Self), ProcessQueues(Self, 0), ConnectObd(Self, TRUE),
                  DisconnectObd(Self), StartPolling(Self, <<"Engine RPM">>, 1, TRUE)} :
          /\ r.pushed \in {pushed, <<>>}
          /\ r.data_queue \in {data_queue, <<>>}

\* The loop of the session has completed two ticks and put two samples
C16_Witness ==
    /\ Len(threads) = 1
    /\ threads[1].pc = "check_polling"
    /\ Completed(1) = 2
    /\ Cardinality(PushedBy(1)) = 2

\* C17: right after a start_polling() that goes ahead, the session store has no
\* series and no anchor, the sample queue is empty, and the log queue holds only
\* the lines that start_polling itself queued: nothing queued before it is left
C17_StartClearsBothQueues ==
    \A labels \in {<<"Engine RPM">>, <<"Engine RPM", "Fuel Type">>} :
        StartRejection(Self, labels, 1) = "" =>
            LET r == StartPolling(Self, labels, 1, TRUE) IN
            /\ r.data_history = <<>>
            /\ r.session_start_time = None
            /\ r.data_queue = <<>>
            /\ r.log_queue = StartPolling([Self EXCEPT !.log_queue = <<>>],
                                          labels, 1, TRUE).log_queue

\* The sink is closed: no file object, no writer, no label order
SinkClosed(s) ==
    /\ s.csv_file = None /\ s.csv_writer = None /\ s.csv_log_labels = <<>>
    /\ s.open_files = 0

\* C18: _close_csv() leaves the sink closed, touches no file and queues no line,
\* does nothing when no sink is open, and does nothing the second time; handling
\* a sample while the sink is closed writes no row, queues no line and leaves
\* the sink closed, and the sample is recorded in the session store all the same
C18_CloseIdempotentWriteNoOp ==
    /\ SinkClosed(CloseCsv(Self))
    /\ CloseCsv(Self).files = files
    /\ CloseCsv(Self).log_queue = log_queue
    /\ CloseCsv(CloseCsv(Self)) = CloseCsv(Self)
    /\ csv_file = None => CloseCsv(Self) = Self
    /\ csv_writer = None =>
          \A sample \in SampleInputs, ok \in BOOLEAN :
              LET h == HandleSample(Self, sample, ok) IN
              /\ h.files = files
              /\ h.log_queue = log_queue
              /\ SinkClosed(h)
              /\ h.recorded = Append(recorded, [sample |-> sample, written |-> None])
              /\ \A l \in DOMAIN sample.vals :
                    /\ l \in DOMAIN h.data_history
                    /\ Len(h.data_history[l].v) =
                          (IF l \in DOMAIN data_history THEN Len(data_history[l].v) ELSE 0)
                          + (IF sample.vals[l] # None THEN 1 ELSE 0)

\* After stop_polling() closed the sink a sample was handled: it is recorded,
\* it has no row, the file is as it was closed and no error line is queued
C18_Witness ==
    /\ ~polling
    /\ SinkClosed(Self)
    /\ files # <<>>
    /\ ~HasLine(log_queue, "CSV write error")
    /\ \E k \in DOMAIN recorded :
          /\ recorded[k].written = None
          /\ \A j \in 1..k - 1 : recorded[j].written # None
          /\ k > 1

C20_SessionsNeverShareAFile ==
    \A labels \in {<<"Engine RPM">>} :
        (StartRejection(Self, labels, 1) = "" /\ log_to_csv) =>
            LET r == StartPolling(Self, labels, 1, TRUE) IN
            /\ r.csv_file # None
            /\ r.csv_file[1] \notin DOMAIN files
            /\ \A f \in DOMAIN files : r.files[f] = files[f]

\* Values of the graph window box, and a negative one
Windows == -1..MaxWindow

\* C21: for every series of the store, projecting with a window of 0 or less
\* gives the whole series, the same points in the same order; what is drawn
\* for a label with a window of 0 is its whole series
C21_ZeroWindowIsIdentity ==
    \A l \in DOMAIN data_history, W \in {w \in Windows : w <= 0} :
        /\ Project(data_history[l], W) = data_history[l]
        /\ Plotted(data_history, l, W) = data_history[l]

\* A series of three points whose times are not in order, which a window of
\* one instant would cut
C21_Witness ==
    /\ "Engine RPM" \in DOMAIN data_history
    /\ Len(data_history["Engine RPM"].t) = 3
    /\ data_history["Engine RPM"].t[2] < data_history["Engine RPM"].t[3]
    /\ data_history["Engine RPM"].v[1] # data_history["Engine RPM"].v[2]
    /\ Window(data_history["Engine RPM"], 0) # data_history["Engine RPM"]

\* The points of (ts, vs) whose time is at least t0, in their order
RECURSIVE From(_, _, _)
From(ts, vs, t0) ==
    IF ts = <<>> THEN EmptySeries
    ELSE LET rest == From(Tail(ts), Tail(vs), t0) IN
         IF Head(ts) >= t0
            THEN [t |-> <<Head(ts)>> \o rest.t, v |-> <<Head(vs)>> \o rest.v]
            ELSE rest

\* Time of the last point of a non-empty series
Last(ts) == ts[Len(ts)]

\* C22 as stated (the Qt variant is the one with a graph window): for every
\* series and window W > 0 the projection is the
\* sub-series of the points with time >= t_last - W, every point of it has its
\* time in [t_last - W, t_last], and the empty series projects to the empty one
C22_WindowWithinBounds ==
    \A l \in DOMAIN data_history, W \in {w \in Windows : w > 0} :
        LET ser == data_history[l]
            p == Plotted(data_history, l, W) IN
        variant = "OBD2-V2" =>
        IF ser.t = <<>> THEN p = EmptySeries
        ELSE /\ p = From(ser.t, ser.v, Last(ser.t) - W)
             /\ \A k \in 1..Len(p.t) :
                   p.t[k] >= Last(ser.t) - W /\ p.t[k] <= Last(ser.t)

\* C22 amended (the Qt variant is the one with a graph window): for every
\* series and window W > 0 the projection is the
\* sub-series of the points with time >= t_last - W, in order, so no point of
\* it is earlier than t_last - W; when the series is non-decreasing in time no
\* point is later than t_last; the empty series projects to the empty one
C22_WindowFromLowerBound ==
    \A l \in DOMAIN data_history, W \in {w \in Windows : w > 0} :
        LET ser == data_history[l]
            p == Plotted(data_history, l, W) IN
        variant = "OBD2-V2" =>
        IF ser.t = <<>> THEN p = EmptySeries
        ELSE /\ p = From(ser.t, ser.v, Last(ser.t) - W)
             /\ \A k \in 1..Len(p.t) : p.t[k] >= Last(ser.t) - W
             /\ (\A k \in 1..Len(ser.t) - 1 : ser.t[k] <= ser.t[k + 1]) =>
                   \A k \in 1..Len(p.t) : p.t[k] <= Last(ser.t)

\* A series in time order that a window of one instant cuts to its last two
\* points
C22_Witness ==
    /\ variant = "OBD2-V2"
    /\ "Engine RPM" \in DOMAIN data_history
    /\ data_history["Engine RPM"].t = <<0, 1, 2>>
    /\ Project(data_history["Engine RPM"], 1).t = <<1, 2>>
    /\ Project(data_history["Engine RPM"], 1).v = SubSeq(data_history["Engine RPM"].v, 2, 3)

\* The session store and the CSV sink of s are those of r
SameStoreAndSink(r, s) ==
    /\ r.data_history = s.data_history
    /\ r.session_start_time = s.session_start_time
    /\ r.recorded = s.recorded
    /\ r.csv_file = s.csv_file
    /\ r.csv_writer = s.csv_writer
    /\ r.csv_log_labels = s.csv_log_labels
    /\ r.files = s.files
    /\ r.open_files = s.open_files

\* s with the store emptied and the sink closed
Blank(s) ==
    [s EXCEPT !.data_history = <<>>, !.session_start_time = None, !.recorded = <<>>,
              !.csv_file = None, !.csv_writer = None, !.csv_log_labels = <<>>,
              !.files = <<>>, !.open_files = 0]

\* C23: no step of _poll_worker writes the session store (data_history,
\* session_start_time) or the sink (csv_file, csv_writer, csv_log_labels, the
\* files), and none reads them: what a step does to the queues, the flag, the
\* link and the threads is the same whatever the store and the sink hold. A
\* step only extends log_queue or data_queue and moves its own thread.
C23_LoopLeavesStoreAndSink ==
    \A t \in Threads, resp \in {NoData, Quantity, Text, Raises} :
        LET r == LoopStep(Self, t, resp) IN
        /\ SameStoreAndSink(r, Self)
        /\ Blank(r) = LoopStep(Blank(Self), t, resp)
        /\ r.polling = polling /\ r.connection = connection /\ r.log_to_csv = log_to_csv
        /\ \A u \in Threads \ {t} : r.threads[u] = threads[u]
        /\ \/ r.log_queue = log_queue /\ r.data_queue = data_queue
           \/ Len(r.log_queue) = Len(log_queue) + 1 /\ r.data_queue = data_queue
           \/ r.log_queue = log_queue /\ r.data_queue = Append(data_queue, threads[t].sample)

\* A loop is about to put a sample while the store holds a series and the
\* sink is open
C23_Witness ==
    /\ csv_writer # None
    /\ session_start_time # None
    /\ \E l \in DOMAIN data_history : data_history[l].t # <<>>
    /\ \E t \in Threads : threads[t].pc = "put"

\* C24: _process_queues() returns with both queues empty, whatever they held
\* and whether or not a write fails on the way (the loops put nothing during
\* the call); called with both queues empty it changes nothing
C24_PumpDrainsBothQueues ==
    \A failAt \in 0..Len(data_queue) :
        (failAt = 0 \/ csv_writer # None) =>
            LET r == ProcessQueues(Self, failAt) IN
            /\ r.data_queue = <<>>
            /\ r.log_queue = <<>>
            /\ (log_queue = <<>> /\ data_queue = <<>>) => r = Self

\* Position of label l in the list
Pos(labels, l) == CHOOSE i \in 1..Len(labels) : labels[i] = l

\* The fragments are of labels among the first n of the list, in list order,
\* at most one per label
InLabelOrder(parts, labels, n) ==
    /\ \A j \in 1..Len(parts) : parts[j].label \in Upto(labels, n)
    /\ \A j, k \in 1..Len(parts) :
          j < k => Pos(labels, parts[j].label) < Pos(labels, parts[k].label)

\* C25 as stated: the line a tick queues has one fragment per requested
\* parameter, in parameter order, whatever the outcomes of the queries were
C25_OneFragmentPerParameter ==
    \A t \in Threads :
        threads[t].pc = "log" =>
            /\ Len(threads[t].line_parts) = Len(threads[t].labels)
            /\ \A i \in 1..Len(threads[t].labels) :
                  threads[t].line_parts[i].label = threads[t].labels[i]

\* C25 amended: the line a tick queues has one fragment per requested parameter
\* whose query returned, in parameter order: "label=N/A" when it reported no
\* data, "label=<raw value>" when it returned a value; a parameter whose query
\* raised has no fragment in the line. The line queued is the fragments joined.
C25_OneFragmentPerAnsweredParameter ==
    \A t \in Threads :
        LET th == threads[t] IN
        /\ th.pc \in {"query", "in_query"} => InLabelOrder(th.line_parts, th.labels, th.i - 1)
        /\ th.pc = "log" =>
              /\ InLabelOrder(th.line_parts, th.labels, Len(th.labels))
              /\ \A l \in Upto(th.labels, Len(th.labels)) :
                    th.sample.vals[l] # None =>
                        \E j \in 1..Len(th.line_parts) : th.line_parts[j].label = l
              /\ EmitLine(Self, t).log_queue = Append(log_queue, Msg("line", th.line_parts))
        /\ th.pc = "in_query" =>
              /\ QueryReturns(Self, t, NoData).threads[t].line_parts =
                     Append(th.line_parts, Fragment(th.labels[th.i], "N/A"))
              /\ \A resp \in {Quantity, Text} :
                     QueryReturns(Self, t, resp).threads[t].line_parts =
                        Append(th.line_parts, Fragment(th.labels[th.i], resp.text))
              /\ QueryReturns(Self, t, Raises).threads[t].line_parts = th.line_parts

\* A tick of two parameters queued a line with the one fragment of the first:
\* the query of the second raised
C25_Witness ==
    \E t \in Threads :
        /\ threads[t].pc = "put"
        /\ Len(threads[t].labels) = 2
        /\ log_queue # <<>>
        /\ log_queue[Len(log_queue)] = Msg("line", <<Fragment("Engine RPM", "0 rpm")>>)

\* C26: a value that cannot be coerced to a number gives the reading None, its
\* raw text is still in the tick's line, and no "Error querying" line is queued;
\* an "Error querying <label>" line is queued exactly when the query raised
\* (the call on a link that is gone included), never for a value or for no data.
C26_CoercionFailureIsNotAnError ==
    \A t \in Threads :
        LET th == threads[t]
            err == Msg("Error querying", <<Fragment(th.labels[th.i], "error")>>)
        IN
        /\ th.pc = "in_query" =>
              /\ LET r == QueryReturns(Self, t, Text) IN
                    /\ r.threads[t].sample.vals[th.labels[th.i]] = None
                    /\ r.threads[t].line_parts =
                          Append(th.line_parts, Fragment(th.labels[th.i], "Gasoline"))
                    /\ r.log_queue = log_queue
              /\ \A resp \in {NoData, Quantity} :
                    QueryReturns(Self, t, resp).log_queue = log_queue
              /\ LET r == QueryReturns(Self, t, Raises) IN
                    /\ r.log_queue = Append(log_queue, err)
                    /\ r.threads[t].sample.vals[th.labels[th.i]] = None
        /\ th.pc = "query" =>
              IssueQuery(Self, t).log_queue =
                 IF connection = "None" THEN Append(log_queue, err) ELSE log_queue
        /\ th.pc \notin {"query", "in_query"} =>
              Lines(LoopStep(Self, t, Text).log_queue, "Error querying") =
                 Lines(log_queue, "Error querying")

\* C26 witness: a tick ended with the text value in its line, the reading of
\* that label None, and no "Error querying" line queued
C26_Witness ==
    \E t \in Threads :
        /\ threads[t].pc = "log"
        /\ threads[t].line_parts = <<Fragment("Engine RPM", "0 rpm"),
                                     Fragment("Fuel Type", "Gasoline")>>
        /\ threads[t].sample.vals["Fuel Type"] = None
        /\ threads[t].sample.vals["Engine RPM"] = Some(0)
        /\ ~HasLine(log_queue, "Error querying")

\* The sink is open on a file of the current second for the given labels
SinkOpenFor(s, labels) ==
    /\ s.csv_file = Some(FileName(now)) /\ s.csv_writer = Some(FileName(now))
    /\ s.csv_log_labels = labels
    /\ s.open_files = 1
    /\ s.files[FileName(now)] = <<HeaderRow(labels)>>

\* C27: a start() that goes ahead leaves the sink open exactly when "Log to CSV"
\* is ticked and the file could be opened, and then the sink's label order is
\* the list of labels passed; with the box unticked, or when the open fails, the
\* sink is closed whatever it was before; in every case the flag is set and the
\* loop is started on the labels passed.
C27_StartOpensSinkIffRequested ==
    \A labels \in {<<"Engine RPM">>, <<"Fuel Type", "Engine RPM">>}, openOk \in BOOLEAN :
        LET r == StartAccepted(Self, labels, 1, openOk) IN
        /\ (log_to_csv /\ openOk) => SinkOpenFor(r, labels)
        /\ ~(log_to_csv /\ openOk) => SinkClosed(r)
        /\ r.log_to_csv = log_to_csv
        /\ r.polling
        /\ Len(r.threads) = Len(threads) + 1
        /\ r.threads[Len(r.threads)] = NewThread(labels, 1)
        /\ StartRejection(Self, labels, 1) = "" => StartPolling(Self, labels, 1, openOk) = r

\* C27 witness: start() went ahead with the box ticked and the open failed: the
\* sink is closed, the flag is set and the loop is in its first tick
C27_Witness ==
    /\ polling /\ log_to_csv
    /\ SinkClosed(Self)
    /\ HasLine(log_queue, "Failed to open CSV file")
    /\ \E t \in Threads : threads[t].pc = "in_query" /\ threads[t].n = 1

\* C28 as stated: whenever the flag is set a loop is alive, and so a start() on
\* a connected link with no loop alive is accepted
C28_FlagMeansLoopAlive ==
    /\ polling => AliveThreads # {}
    /\ (connection = "connected" /\ AliveThreads = {}) =>
          StartRejection(Self, <<"Engine RPM">>, 1) = ""

\* C29 as stated: no acquisition thread ends by an error raised out of
\* _poll_worker: a thread that has ended left through its loop condition
C29_LoopNeverDiesOfAnError ==
    \A t \in Threads : threads[t].exit # "error"

\* The sample of tick n of thread tid is on the sample channel
InQueue(tid, n) ==
    \E k \in 1..Len(data_queue) : data_queue[k].tid = tid /\ data_queue[k].n = n

\* How many times that sample is in the record of the session store
TimesRecorded(tid, n) ==
    Cardinality({k \in 1..Len(recorded) :
                    recorded[k].sample.tid = tid /\ recorded[k].sample.n = n})

\* C30: with the timer firing, every sample put on the sample channel is in
\* time recorded, or cleared by a later start(); it leaves the channel only by
\* being recorded, once, or by a start() that goes ahead; it is never recorded
\* twice. The running flag plays no part: the same holds after stop().
C30_PushedIsEventuallyRecordedOnce ==
    /\ \A tid \in 1..MaxThreads, n \in 1..MaxTicks :
          InQueue(tid, n) ~> (TimesRecorded(tid, n) = 1 \/ ~InQueue(tid, n))
    /\ [][\A tid \in 1..MaxThreads, n \in 1..MaxTicks :
              (InQueue(tid, n) /\ ~InQueue(tid, n)') =>
                  \/ TimesRecorded(tid, n)' = TimesRecorded(tid, n) + 1
                  \/ Len(threads') > Len(threads) /\ recorded' = <<>>]_vars
    /\ [](\A tid \in 1..MaxThreads, n \in 1..MaxTicks : TimesRecorded(tid, n) <= 1)

\* The timer's step of the fairness condition is the step of Pump
C30_TimerFiresIsPump == [][TimerFires <=> Pump({TRUE})]_vars

\* C30 witness: a sample put on the channel after stop() has been recorded by
\* the timer's run, with the flag clear
C30_Witness ==
    /\ ~polling
    /\ data_queue = <<>>
    /\ \E t \in Threads :
          /\ threads[t].exit = "stopped"
          /\ threads[t].afterStop = 1
          /\ TimesRecorded(t, threads[t].n) = 1

\* The three sink fields of s agree: file and writer are set together, and
\* the label order is empty exactly when they are not set
SinkConsistent(s) ==
    /\ (s.csv_file = None) <=> (s.csv_writer = None)
    /\ s.csv_file = None => s.csv_log_labels = <<>>
    /\ s.csv_file # None => s.csv_log_labels # <<>>

\* C31: the sink fields agree in every state the GUI thread leaves, and every
\* operation of the GUI thread run from such a state leaves them agreeing:
\* start (accepted or rejected, the open working or failing), stop, the
\* timer's run (a write failing at any sample or none), _open_new_csv with the
\* labels of a start, _close_csv, and ticking or unticking "Log to CSV"
C31_SinkFieldsAgree ==
    /\ SinkConsistent(Self)
    /\ \A labels \in {<<>>, <<"Engine RPM">>, <<"Fuel Type", "Engine RPM">>},
          interval \in Intervals, ok \in BOOLEAN :
          /\ SinkConsistent(StartPolling(Self, labels, interval, ok))
          /\ labels # <<>> => SinkConsistent(OpenNewCsv(Self, labels, ok))
    /\ SinkConsistent(StopPolling(Self))
    /\ \A failAt \in 0..Len(data_queue) : SinkConsistent(ProcessQueues(Self, failAt))
    /\ SinkConsistent(CloseCsv(Self))
    /\ \A checked \in BOOLEAN : SinkConsistent(OnLogCsvChanged(Self, checked))

\* C31 witness: the box was unticked during a session that was writing rows:
\* the sink is closed with the session still running, its file is on disk, and
\* a later sample was recorded without a row
C31_Witness ==
    /\ variant = "OBD2-V2"
    /\ polling /\ ~log_to_csv
    /\ SinkClosed(Self)
    /\ \E k \in 2..Len(recorded) :
          recorded[k - 1].written # None /\ recorded[k].written = None

\* p is the series ser from some position on
IsSuffix(p, ser) ==
    \E k \in 1..Len(ser.t) + 1 :
        /\ p.t = SubSeq(ser.t, k, Len(ser.t))
        /\ p.v = SubSeq(ser.v, k, Len(ser.v))

\* The times of the series never decrease
NonDecreasing(ts) == \A k \in 1..Len(ts) - 1 : ts[k] <= ts[k + 1]

\* C32: for every non-empty series of the store and every window W > 0 the
\* projection is non-empty and ends with the last point of the series; when
\* the times of the series never decrease it is the series from some position
\* on; projecting the projection with the same W gives it back; and what the
\* Qt variant draws for the label is that projection
C32_ProjectionKeepsLastAndIsIdempotent ==
    \A l \in DOMAIN data_history, W \in {w \in Windows : w > 0} :
        LET ser == data_history[l]
            p == Project(ser, W) IN
        ser.t # <<>> =>
            /\ p.t # <<>>
            /\ Len(p.t) = Len(p.v)
            /\ Last(p.t) = Last(ser.t)
            /\ p.v[Len(p.v)] = ser.v[Len(ser.v)]
            /\ NonDecreasing(ser.t) => IsSuffix(p, ser)
            /\ Project(p, W) = p
            /\ variant = "OBD2-V2" => Plotted(data_history, l, W) = p

\* C32 witness: a series whose times go back, which a window of one instant
\* cuts to points that are not the series from any position on; and the
\* projection projected again is the same
C32_Witness ==
    /\ variant = "OBD2-V2"
    /\ "Engine RPM" \in DOMAIN data_history
    /\ LET ser == data_history["Engine RPM"]
           p == Project(ser, 1) IN
       /\ Len(ser.t) = 3
       /\ ~NonDecreasing(ser.t)
       /\ Len(p.t) = 2
       /\ ~IsSuffix(p, ser)
       /\ Project(p, 1) = p
====
